---- MODULE Spec2Model ----
(***************************************************************************)
(* Room session core of Music-player-BE: the durable Room collection, the  *)
(* in-memory live registry `rooms`, and the socket event handlers of       *)
(* src/sockets/socketHandler.js.  Each handler is one action that runs     *)
(* from its first store read to its last emit and leaves in `last` what it *)
(* was given, read and emitted; the event loop then returns to idle before *)
(* the next event is dispatched.                                           *)
(*                                                                         *)
(* JavaScript values are encoded as strings: Undefined and Null are the    *)
(* values undefined and null; every other string is itself.  A track is    *)
(* the record [id |-> mediaId]; title, thumbnail, channel and duration are *)
(* payload that no handler inspects.  A missing currentSong is NoSong.     *)
(***************************************************************************)
EXTENDS Integers, Sequences, FiniteSets, TLC

\* ---- bounds of the model ------------------------------------------------
MaxQueue == 2
MaxRequests == 1
MaxRunning == 2
MaxGrants == 3

\* ---- JavaScript values ---------------------------------------------------
Undefined == "<undefined>"
Null == "<null>"
NoSong == [id |-> Null]
NoDoc == [missing |-> TRUE]

\* ---- inputs the clients can send ------------------------------------------
RoomIds == {"jam"}
Conns == {"c1"}
TrackIds == {"t1", "t2"}
TargetIds == {"g1"}
Songs == {[id |-> t] : t \in TrackIds}
Times == {1}
\* The request ids a client can name: those handed out, and one never handed out.
RequestIds == 1..(MaxRequests + 1)
\* The { userId, guestId } pairs of an event payload; either may be absent.
\* Joiners are the pairs that create_room and join_room are sent with.
Joiners == {<<Undefined, Undefined>>, <<"u1", Undefined>>, <<"u1", "g1">>,
            <<Undefined, "g1">>}
Senders == Joiners \cup {<<Undefined, "undefined">>}

VARIABLES db, rooms, conns, last, running
vars == <<db, rooms, conns, last, running>>

\* ---- JavaScript operators -------------------------------------------------
\* String(v)
Str(v) == IF v = Undefined THEN "undefined" ELSE IF v = Null THEN "null" ELSE v
\* !v
Falsy(v) == v \in {Undefined, Null, ""}
\* a || b
OrElse(a, b) == IF Falsy(a) THEN b ELSE a
\* arr.includes(v)
Includes(arr, v) == \E i \in 1..Len(arr) : arr[i] = v
\* arr.some(s => s.id === id)
SomeId(arr, id) == \E i \in 1..Len(arr) : arr[i].id = id
\* String.prototype.toLowerCase, on the room ids that clients send
ToLowerCase(s) == IF s = "Jam" THEN "jam" ELSE s
\* const effectiveUserId = userId || guestId
effectiveUserId(userId, guestId) == OrElse(userId, guestId)

\* ---- the Room collection ---------------------------------------------------
\* Room.create(...) with the schema defaults of models/Room.js
NewRoom(creator) ==
    [creatorId |-> creator, djPermissions |-> <<>>, queue |-> <<>>,
     currentSong |-> NoSong, isPlaying |-> FALSE, currentTime |-> 0,
     songRequests |-> <<>>]
\* Room.findOne({ roomId })
findOne(rid) == IF rid \in DOMAIN db THEN db[rid] ELSE NoDoc
\* Faulty variant of Update, which the properties below must tell apart: a missing document is created (upsert).
Update_Upserts(rid, doc) ==
    IF rid \in DOMAIN db THEN [db EXCEPT ![rid] = doc] ELSE db @@ (rid :> NewRoom(Undefined))
\* Room.findOneAndUpdate({ roomId }, delta): no document, no write
Update(rid, doc) == IF rid \in DOMAIN db THEN [db EXCEPT ![rid] = doc] ELSE db
\* rooms[roomId] = { id, users: {}, skipVotes } unless present; of the registry
\* entry the model keeps the keys of its users object
GetOrCreate(r, rid) == IF rid \in DOMAIN r THEN r ELSE r @@ (rid :> {})
\* Faulty variant of SetUser, which the properties below must tell apart: members are keyed by identity.
SetUser_ByIdentity(users, c, userId) == users \cup {OrElse(userId, c)}
\* rooms[roomId].users[socket.id] = { id: socket.id, name, color, userId }
SetUser(users, c, userId) == users \cup {c}
\* delete rooms[roomId].users[socket.id]
DeleteUser(users, c) == users \ {c}

\* ---- outbound events ---------------------------------------------------------
ToSocket(name, data) == [to |-> "socket", name |-> name, data |-> data]
\* Faulty variant of ToRoom, which the properties below must tell apart: the event goes to every connected client.
ToRoom_Everyone(name, data) == [to |-> "all", name |-> name, data |-> data]
ToRoom(name, data) == [to |-> "room", name |-> name, data |-> data]
ToAll(name, data) == [to |-> "all", name |-> name, data |-> data]
\* broadcastRooms(io): userCount of every stored room, read from the registry
broadcastRooms(d, r) ==
    ToAll("update_active_rooms",
          [x \in DOMAIN d |-> IF x \in DOMAIN r THEN Cardinality(r[x]) ELSE 0])
\* What the last handled event was: its name, room, effective identity and
\* argument (for join_room and disconnect, the socket it arrived on), the room
\* document its first read returned, how it ended and what it emitted, in order.
Handled(op, rid, id, arg, pre, res, out) ==
    [op |-> op, room |-> rid, id |-> id, arg |-> arg, pre |-> pre,
     res |-> res, out |-> out]

\* The event loop between two events: nothing is being handled.
Idle == Handled("idle", "", Undefined, <<>>, NoDoc, "ok", <<>>)

\* ---- handlers waiting on the store ----------------------------------------------
\* A handler that has awaited a store call and not yet resumed: its event and
\* room, the local variables it still uses, and the await it resumes from.  In
\* the handlers of the first part nothing runs between a handler's awaits,
\* and no handler is ever waiting.
NoTask == [op |-> "none"]
Slots == 1..MaxRunning
NoTasks == [k \in Slots |-> NoTask]
Task(op, rid, locals, pc) == [op |-> op, room |-> rid, locals |-> locals, pc |-> pc]
\* The first slot that holds no waiting handler.
FreeSlot(k) == running[k] = NoTask /\ \A j \in 1..(k - 1) : running[j] # NoTask
At(k, op, pc) == running[k] # NoTask /\ running[k].op = op /\ running[k].pc = pc

\* ---- authorization -----------------------------------------------------------
hasDJPermission(room, userId) ==
    IF room = NoDoc THEN FALSE
    ELSE IF Str(room.creatorId) = Str(userId) THEN TRUE
    ELSE IF Includes(room.djPermissions, userId) THEN TRUE
    ELSE FALSE

Init ==
    /\ db = <<>>
    /\ rooms = <<>>
    /\ conns = {}
    /\ last = Idle
    /\ running = NoTasks

\* io.on('connection')
connection(c) ==
    /\ last = Idle
    /\ c \notin conns
    /\ conns' = conns \cup {c}
    /\ UNCHANGED <<db, rooms, running>>
    /\ last' = Handled("connection", "", Undefined, <<>>, NoDoc, "ok",
                       <<broadcastRooms(db, rooms)>>)

\* socket.on('create_room')
create_room(c, roomId, userId, guestId) ==
    LET room == findOne(roomId)
        id == OrElse(userId, guestId)
    IN  /\ last = Idle
        /\ c \in conns
        /\ IF room = NoDoc
           THEN /\ db' = db @@ (roomId :> NewRoom(id))
                /\ rooms' = GetOrCreate(rooms, roomId)
                /\ last' = Handled("create_room", roomId, id, <<>>, room, "ok",
                                   <<ToSocket("room_created", <<roomId>>),
                                     broadcastRooms(db', rooms')>>)
           ELSE /\ UNCHANGED <<db, rooms>>
                /\ last' = Handled("create_room", roomId, id, <<>>, room, "exists",
                                   <<broadcastRooms(db, rooms)>>)
        /\ UNCHANGED <<conns, running>>

\* Faulty variant of Backfill, which the properties below must tell apart: every joiner is written as the creator.
Backfill_Always(roomData, id) == [roomData EXCEPT !.creatorId = id]
\* if (!roomData.creatorId) { roomData.creatorId = effectiveUserId; ... }
Backfill(roomData, id) ==
    IF Falsy(roomData.creatorId) THEN [roomData EXCEPT !.creatorId = id] ELSE roomData

\* Room.findOne({ roomId }), then the `fallback normalized` lookup under the
\* lowercased id; a stored roomId is always lowercase (models/Room.js)
FindRoom(roomId) ==
    IF findOne(roomId) # NoDoc THEN findOne(roomId) ELSE findOne(ToLowerCase(roomId))

\* socket.on('join_room'): the record is looked up and created under the
\* lowercased id, the registry entry is kept under the id as it was sent
join_room(c, roomId, userId, guestId) ==
    LET id == OrElse(userId, guestId)
        found == FindRoom(roomId)
        roomData == IF found = NoDoc THEN NewRoom(id) ELSE Backfill(found, id)
        live == ~Falsy(userId) /\ Str(roomData.creatorId) = Str(userId)
    IN  /\ last = Idle
        /\ c \in conns
        /\ db' = IF found = NoDoc THEN db @@ (ToLowerCase(roomId) :> roomData)
                 ELSE [db EXCEPT ![ToLowerCase(roomId)] = roomData]
        /\ rooms' = [GetOrCreate(rooms, roomId) EXCEPT ![roomId] = SetUser(@, c, userId)]
        /\ last' = Handled("join_room", roomId, id, <<c>>, found, "ok",
                (IF live THEN <<ToAll("dj_went_live", <<userId>>)>> ELSE <<>>)
                \o <<ToSocket("receive_room_state", <<roomData>>),
                     ToRoom("update_listeners", <<rooms'[roomId]>>),
                     broadcastRooms(db', rooms')>>)
        /\ UNCHANGED <<conns, running>>

\* Faulty variant of SetPaused, which the properties below must tell apart: the update also drops the current song.
SetPaused_DropsSong(room) == [room EXCEPT !.isPlaying = FALSE, !.currentSong = NoSong]
\* Room.findOneAndUpdate({ roomId }, { isPlaying: false })
SetPaused(room) == [room EXCEPT !.isPlaying = FALSE]

\* socket.on('disconnect')
disconnect(c) ==
    LET joined == {r \in DOMAIN rooms : c \in rooms[r]}
        emptied == {r \in joined : DeleteUser(rooms[r], c) = {}}
    IN  /\ last = Idle
        /\ c \in conns
        /\ conns' = conns \ {c}
        /\ UNCHANGED running
        /\ rooms' = [r \in DOMAIN rooms |-> DeleteUser(rooms[r], c)]
        /\ db' = [r \in DOMAIN db |->
                    IF r \in emptied THEN SetPaused(db[r]) ELSE db[r]]
        /\ last' = Handled("disconnect", "", Undefined, <<c>>, NoDoc, "ok",
                (IF joined = {} THEN <<>>
                 ELSE <<ToRoom("update_listeners", <<[r \in joined |-> rooms'[r]]>>)>>)
                \o <<broadcastRooms(db', rooms')>>)

\* Faulty variant of isDuplicate, which the properties below must tell apart: the song that is playing is not looked at.
isDuplicate_QueueOnly(roomData, song) == SomeId(roomData.queue, song.id)
\* Check if song already exists in queue or is current
isDuplicate(roomData, song) ==
    SomeId(roomData.queue, song.id)
    \/ (roomData.currentSong # NoSong /\ roomData.currentSong.id = song.id)
\* { $push: { queue: song } }
Push(room, song) == [room EXCEPT !.queue = Append(@, song)]
\* Faulty variant of PlayNext, which the properties below must tell apart: the update leaves currentTime out.
PlayNext_KeepsTime(room) ==
    [room EXCEPT !.currentSong = Head(room.queue), !.queue = Tail(room.queue),
                 !.isPlaying = TRUE]
\* const nextSong = room.queue.shift(); then
\* { currentSong: nextSong, queue: room.queue, isPlaying: true, currentTime: 0 }
PlayNext(room) ==
    [room EXCEPT !.currentSong = Head(room.queue), !.queue = Tail(room.queue),
                 !.isPlaying = TRUE, !.currentTime = 0]
\* Faulty variant of NoSongPlaying, which the properties below must tell apart: a paused room is taken for an idle one.
NoSongPlaying_WhenPaused(room) == ~room.isPlaying
\* if (!room.currentSong)
NoSongPlaying(room) == room.currentSong = NoSong
\* Faulty variant of StopPlaying, which the properties below must tell apart: the song that ended stays current.
StopPlaying_KeepsSong(room) == [room EXCEPT !.isPlaying = FALSE]
\* { currentSong: null, isPlaying: false }
StopPlaying(room) == [room EXCEPT !.currentSong = NoSong, !.isPlaying = FALSE]

\* socket.on('add_to_queue'): no identity is read, any connection may enqueue
add_to_queue(c, roomId, song) ==
    LET roomData == findOne(roomId)
        room == Push(roomData, song)
        updatedRoom == PlayNext(room)
    IN  /\ last = Idle
        /\ c \in conns
        /\ UNCHANGED <<rooms, conns, running>>
        /\ IF roomData = NoDoc
           THEN /\ UNCHANGED db
                /\ last' = Handled("add_to_queue", roomId, Undefined, <<song>>, roomData,
                                   "noroom", <<>>)
           ELSE IF isDuplicate(roomData, song)
           THEN /\ UNCHANGED db
                /\ last' = Handled("add_to_queue", roomId, Undefined, <<song>>, roomData,
                                   "duplicate",
                                   <<ToSocket("queue_feedback", <<"error", "Signal already in sequence">>)>>)
           ELSE /\ Len(roomData.queue) < MaxQueue
                /\ IF NoSongPlaying(room)
                   THEN /\ db' = Update(roomId, updatedRoom)
                        /\ last' = Handled("add_to_queue", roomId, Undefined, <<song>>, roomData,
                                           "ok",
                                           <<ToRoom("update_queue", room.queue),
                                             ToRoom("receive_play_song", <<updatedRoom.currentSong>>),
                                             ToRoom("update_queue", updatedRoom.queue)>>)
                   ELSE /\ db' = Update(roomId, room)
                        /\ last' = Handled("add_to_queue", roomId, Undefined, <<song>>, roomData,
                                           "ok", <<ToRoom("update_queue", room.queue)>>)

\* socket.on('delete_room')
delete_room(c, roomId, userId, guestId) ==
    LET room == findOne(roomId)
        id == effectiveUserId(userId, guestId)
    IN  /\ last = Idle
        /\ c \in conns
        /\ UNCHANGED <<rooms, conns, running>>
        /\ IF room = NoDoc
           THEN /\ UNCHANGED db
                /\ last' = Handled("delete_room", roomId, id, <<>>, room, "noroom", <<>>)
           ELSE IF ~hasDJPermission(room, id) \/ Str(room.creatorId) # Str(id)
           THEN /\ UNCHANGED db
                /\ last' = Handled("delete_room", roomId, id, <<>>, room, "denied",
                        <<ToSocket("error", <<"Only the room creator can delete this room.">>)>>)
           ELSE /\ db' = [r \in DOMAIN db \ {roomId} |-> db[r]]
                /\ last' = Handled("delete_room", roomId, id, <<>>, room, "ok",
                        <<ToRoom("room_deleted", <<>>), broadcastRooms(db', rooms)>>)

\* socket.on('next_song')
next_song(c, roomId, userId, guestId) ==
    LET room == findOne(roomId)
        id == effectiveUserId(userId, guestId)
        updatedRoom == PlayNext(room)
    IN  /\ last = Idle
        /\ c \in conns
        /\ UNCHANGED <<rooms, conns, running>>
        /\ IF room = NoDoc
           THEN /\ UNCHANGED db
                /\ last' = Handled("next_song", roomId, id, <<>>, room, "noroom", <<>>)
           ELSE IF ~hasDJPermission(room, id)
           THEN /\ UNCHANGED db
                /\ last' = Handled("next_song", roomId, id, <<>>, room, "denied",
                        <<ToSocket("error", <<"Only DJs can skip songs.">>)>>)
           ELSE IF Len(room.queue) > 0
           THEN /\ db' = Update(roomId, updatedRoom)
                /\ last' = Handled("next_song", roomId, id, <<>>, room, "ok",
                        <<ToRoom("receive_play_song", <<updatedRoom.currentSong>>),
                          ToRoom("update_queue", updatedRoom.queue)>>)
           ELSE /\ db' = Update(roomId, StopPlaying(room))
                /\ last' = Handled("next_song", roomId, id, <<>>, room, "ok",
                        <<ToRoom("receive_pause", <<>>)>>)

\* Faulty variant of Pull, which the properties below must tell apart: the entry at the head goes, whatever its id.
Pull_Head(queue, queueId) == IF queue = <<>> THEN queue ELSE Tail(queue)
\* { $pull: { queue: { id: queueId } } }
Pull(queue, queueId) == SelectSeq(queue, LAMBDA s : s.id # queueId)

\* socket.on('remove_from_queue')
remove_from_queue(c, roomId, queueId, userId, guestId) ==
    LET roomConfig == findOne(roomId)
        id == effectiveUserId(userId, guestId)
        room == [roomConfig EXCEPT !.queue = Pull(@, queueId)]
    IN  /\ last = Idle
        /\ c \in conns
        /\ UNCHANGED <<rooms, conns, running>>
        /\ IF ~hasDJPermission(roomConfig, id)
           THEN /\ UNCHANGED db
                /\ last' = Handled("remove_from_queue", roomId, id, <<queueId>>, roomConfig,
                                   "denied", <<>>)
           ELSE /\ db' = Update(roomId, room)
                /\ last' = Handled("remove_from_queue", roomId, id, <<queueId>>, roomConfig,
                                   "ok", <<ToRoom("update_queue", room.queue)>>)

\* Faulty variant of Swap, which the properties below must tell apart: only one side is assigned.
Swap_OneSided(s, i, j) == [s EXCEPT ![i] = s[j]]
\* [shuffled[i], shuffled[j]] = [shuffled[j], shuffled[i]]
Swap(s, i, j) == [s EXCEPT ![i] = s[j], ![j] = s[i]]
\* The Fisher-Yates loop, from index i down; js[i] is the j drawn at index i.
RECURSIVE FisherYates(_, _, _)
FisherYates(shuffled, i, js) ==
    IF i <= 1 THEN shuffled ELSE FisherYates(Swap(shuffled, i, js[i]), i - 1, js)
\* Math.floor(Math.random() * (i + 1)) at every index
Draws(n) == {js \in [1..n -> 1..n] : \A i \in 1..n : js[i] <= i}

\* socket.on('shuffle_queue')
shuffle_queue(c, roomId, userId, guestId) ==
    LET roomConfig == findOne(roomId)
        id == effectiveUserId(userId, guestId)
    IN  /\ last = Idle
        /\ c \in conns
        /\ UNCHANGED <<rooms, conns, running>>
        /\ IF ~hasDJPermission(roomConfig, id)
           THEN /\ UNCHANGED db
                /\ last' = Handled("shuffle_queue", roomId, id, <<>>, roomConfig, "denied", <<>>)
           ELSE IF Len(roomConfig.queue) <= 1
           THEN /\ UNCHANGED db
                /\ last' = Handled("shuffle_queue", roomId, id, <<>>, roomConfig, "noop", <<>>)
           ELSE \E js \in Draws(Len(roomConfig.queue)) :
                  LET shuffled == FisherYates(roomConfig.queue, Len(roomConfig.queue), js)
                  IN  /\ db' = Update(roomId, [roomConfig EXCEPT !.queue = shuffled])
                      /\ last' = Handled("shuffle_queue", roomId, id, <<>>, roomConfig, "ok",
                                         <<ToRoom("update_queue", shuffled)>>)

\* socket.on('send_play')
send_play(c, roomId, time, userId, guestId) ==
    LET room == findOne(roomId)
        id == effectiveUserId(userId, guestId)
    IN  /\ last = Idle
        /\ c \in conns
        /\ UNCHANGED <<rooms, conns, running>>
        /\ IF room = NoDoc
           THEN /\ UNCHANGED db
                /\ last' = Handled("send_play", roomId, id, <<time>>, room, "noroom", <<>>)
           ELSE IF ~hasDJPermission(room, id)
           THEN /\ UNCHANGED db
                /\ last' = Handled("send_play", roomId, id, <<time>>, room, "denied",
                        <<ToSocket("error", <<"Only DJs can play music.">>)>>)
           ELSE /\ db' = Update(roomId, [room EXCEPT !.isPlaying = TRUE, !.currentTime = time])
                /\ last' = Handled("send_play", roomId, id, <<time>>, room, "ok",
                        <<ToRoom("receive_play", <<time>>)>>)

\* socket.on('send_pause')
send_pause(c, roomId, userId, guestId) ==
    LET room == findOne(roomId)
        id == effectiveUserId(userId, guestId)
    IN  /\ last = Idle
        /\ c \in conns
        /\ UNCHANGED <<rooms, conns, running>>
        /\ IF room = NoDoc
           THEN /\ UNCHANGED db
                /\ last' = Handled("send_pause", roomId, id, <<>>, room, "noroom", <<>>)
           ELSE IF ~hasDJPermission(room, id)
           THEN /\ UNCHANGED db
                /\ last' = Handled("send_pause", roomId, id, <<>>, room, "denied",
                        <<ToSocket("error", <<"Only DJs can pause music.">>)>>)
           ELSE /\ db' = Update(roomId, [room EXCEPT !.isPlaying = FALSE])
                /\ last' = Handled("send_pause", roomId, id, <<>>, room, "ok",
                        <<ToRoom("receive_pause", <<>>)>>)

\* Faulty variant of Seek, which the properties below must tell apart: scrubbing also pauses.
Seek_Pauses(room, time) == [room EXCEPT !.currentTime = time, !.isPlaying = FALSE]
\* Room.findOneAndUpdate({ roomId }, { currentTime: time })
Seek(room, time) == [room EXCEPT !.currentTime = time]

\* socket.on('send_seek')
send_seek(c, roomId, time, userId, guestId) ==
    LET room == findOne(roomId)
        id == effectiveUserId(userId, guestId)
    IN  /\ last = Idle
        /\ c \in conns
        /\ UNCHANGED <<rooms, conns, running>>
        /\ IF room = NoDoc
           THEN /\ UNCHANGED db
                /\ last' = Handled("send_seek", roomId, id, <<time>>, room, "noroom", <<>>)
           ELSE IF ~hasDJPermission(room, id)
           THEN /\ UNCHANGED db
                /\ last' = Handled("send_seek", roomId, id, <<time>>, room, "denied",
                        <<ToSocket("error", <<"Only DJs can scrub.">>)>>)
           ELSE /\ db' = Update(roomId, Seek(room, time))
                /\ last' = Handled("send_seek", roomId, id, <<time>>, room, "ok",
                        <<ToRoom("receive_seek", <<time>>)>>)

\* req => req.id === song.id && req.status === 'pending'
PendingFor(songRequests, trackId) ==
    \E i \in 1..Len(songRequests) :
        songRequests[i].id = trackId /\ songRequests[i].status = "pending"
\* songRequests.find(req => String(req._id) === String(requestId))
HasRequest(songRequests, requestId) ==
    \E i \in 1..Len(songRequests) : songRequests[i]._id = requestId
FindRequest(songRequests, requestId) ==
    songRequests[CHOOSE i \in 1..Len(songRequests) :
                    /\ songRequests[i]._id = requestId
                    /\ \A k \in 1..(i - 1) : songRequests[k]._id # requestId]
\* Faulty variant of SetStatus, which the properties below must tell apart: the request is taken out of the list.
SetStatus_Removes(songRequests, requestId, status) ==
    SelectSeq(songRequests, LAMBDA q : q._id # requestId)
\* { $set: { 'songRequests.$.status': status } } on the first element matched
SetStatus(songRequests, requestId, status) ==
    [i \in 1..Len(songRequests) |->
        IF /\ songRequests[i]._id = requestId
           /\ \A k \in 1..(i - 1) : songRequests[k]._id # requestId
        THEN [songRequests[i] EXCEPT !.status = status]
        ELSE songRequests[i]]
\* _id: new mongoose.Types.ObjectId(), never equal to an _id made before
NewObjectId(songRequests) == Len(songRequests) + 1

\* socket.on('request_song')
request_song(c, roomId, song, userId, guestId) ==
    LET room == findOne(roomId)
        id == effectiveUserId(userId, guestId)
        isDuplicateRequest == PendingFor(room.songRequests, song.id)
        inQueue == SomeId(room.queue, song.id)
        newRequest == [_id |-> NewObjectId(room.songRequests), id |-> song.id,
                       status |-> "pending"]
        updatedRoom == [room EXCEPT !.songRequests = Append(@, newRequest)]
    IN  /\ last = Idle
        /\ c \in conns
        /\ UNCHANGED <<rooms, conns, running>>
        /\ IF room = NoDoc
           THEN /\ UNCHANGED db
                /\ last' = Handled("request_song", roomId, id, <<song>>, room, "noroom",
                        <<ToSocket("error", <<"Room not found">>)>>)
           ELSE IF isDuplicateRequest
           THEN /\ UNCHANGED db
                /\ last' = Handled("request_song", roomId, id, <<song>>, room, "duplicate",
                        <<ToSocket("request_feedback", <<"error", "This song is already requested">>)>>)
           ELSE IF inQueue
           THEN /\ UNCHANGED db
                /\ last' = Handled("request_song", roomId, id, <<song>>, room, "duplicate",
                        <<ToSocket("request_feedback", <<"error", "This song is already in the queue">>)>>)
           ELSE /\ Len(room.songRequests) < MaxRequests
                /\ db' = Update(roomId, updatedRoom)
                /\ last' = Handled("request_song", roomId, id, <<song>>, room, "ok",
                        <<ToRoom("song_requests_updated", updatedRoom.songRequests),
                          ToSocket("request_feedback", <<"success", "Song requested successfully!">>)>>)

\* Faulty variant of Accept, which the properties below must tell apart: an idle room starts the track.
Accept_AutoStarts(room, request, requestId) ==
    IF room.currentSong = NoSong /\ room.queue = <<>>
    THEN [room EXCEPT !.songRequests = SetStatus(@, requestId, "accepted"),
                      !.currentSong = [id |-> request.id], !.isPlaying = TRUE]
    ELSE [room EXCEPT !.songRequests = SetStatus(@, requestId, "accepted"),
                      !.queue = Append(@, [id |-> request.id])]
\* { $set: { 'songRequests.$.status': 'accepted' }, $push: { queue: { id: request.id, ... } } }
Accept(room, request, requestId) ==
    [room EXCEPT !.songRequests = SetStatus(@, requestId, "accepted"),
                 !.queue = Append(@, [id |-> request.id])]

\* socket.on('accept_request')
accept_request(c, roomId, requestId, userId, guestId) ==
    LET room == findOne(roomId)
        id == effectiveUserId(userId, guestId)
        request == FindRequest(room.songRequests, requestId)
        updatedRoom == Accept(room, request, requestId)
    IN  /\ last = Idle
        /\ c \in conns
        /\ UNCHANGED <<rooms, conns, running>>
        /\ IF room = NoDoc
           THEN /\ UNCHANGED db
                /\ last' = Handled("accept_request", roomId, id, <<requestId>>, room, "noroom",
                        <<ToSocket("error", <<"Room not found">>)>>)
           ELSE IF ~hasDJPermission(room, id)
           THEN /\ UNCHANGED db
                /\ last' = Handled("accept_request", roomId, id, <<requestId>>, room, "denied",
                        <<ToSocket("error", <<"Only DJs can accept requests.">>)>>)
           ELSE IF ~HasRequest(room.songRequests, requestId)
           THEN /\ UNCHANGED db
                /\ last' = Handled("accept_request", roomId, id, <<requestId>>, room, "notfound",
                        <<ToSocket("error", <<"Request not found">>)>>)
           ELSE /\ Len(room.queue) < MaxQueue
                /\ db' = Update(roomId, updatedRoom)
                /\ last' = Handled("accept_request", roomId, id, <<requestId>>, room, "ok",
                        <<ToRoom("song_requests_updated", updatedRoom.songRequests),
                          ToRoom("update_queue", updatedRoom.queue)>>)

\* Faulty variant of Matches, which the properties below must tell apart: the filter names the room only.
Matches_RoomOnly(room, requestId) == TRUE
\* the filter { roomId, 'songRequests._id': requestId } finds the document
Matches(room, requestId) == HasRequest(room.songRequests, requestId)
\* Faulty variant of Decline, which the properties below must tell apart: the track is queued as on accept.
Decline_Requeues(room, requestId) ==
    [room EXCEPT !.songRequests = SetStatus(@, requestId, "declined"),
                 !.queue = Append(@, [id |-> FindRequest(room.songRequests, requestId).id])]
\* { $set: { 'songRequests.$.status': 'declined' } }
Decline(room, requestId) ==
    [room EXCEPT !.songRequests = SetStatus(@, requestId, "declined")]

\* socket.on('decline_request')
decline_request(c, roomId, requestId, userId, guestId) ==
    LET room == findOne(roomId)
        id == effectiveUserId(userId, guestId)
        updatedRoom == Decline(room, requestId)
    IN  /\ last = Idle
        /\ c \in conns
        /\ UNCHANGED <<rooms, conns, running>>
        /\ IF room = NoDoc
           THEN /\ UNCHANGED db
                /\ last' = Handled("decline_request", roomId, id, <<requestId>>, room, "noroom",
                        <<ToSocket("error", <<"Room not found">>)>>)
           ELSE IF ~hasDJPermission(room, id)
           THEN /\ UNCHANGED db
                /\ last' = Handled("decline_request", roomId, id, <<requestId>>, room, "denied",
                        <<ToSocket("error", <<"Only DJs can decline requests.">>)>>)
           ELSE IF ~Matches(room, requestId)
           THEN /\ UNCHANGED db
                /\ last' = Handled("decline_request", roomId, id, <<requestId>>, room, "notfound",
                        <<ToSocket("error", <<"Failed to decline request">>)>>)
           ELSE /\ db' = Update(roomId, updatedRoom)
                /\ last' = Handled("decline_request", roomId, id, <<requestId>>, room, "ok",
                        <<ToRoom("song_requests_updated", updatedRoom.songRequests)>>)

\* socket.on('grant_dj_permission')
grant_dj_permission(c, roomId, targetUserId, userId, guestId) ==
    LET room == findOne(roomId)
        id == effectiveUserId(userId, guestId)
        updatedRoom == [room EXCEPT !.djPermissions = Append(@, targetUserId)]
    IN  /\ last = Idle
        /\ c \in conns
        /\ UNCHANGED <<rooms, conns, running>>
        /\ IF room = NoDoc
           THEN /\ UNCHANGED db
                /\ last' = Handled("grant_dj_permission", roomId, id, <<targetUserId>>, room,
                        "noroom", <<ToSocket("error", <<"Room not found">>)>>)
           ELSE IF Str(room.creatorId) # Str(id)
           THEN /\ UNCHANGED db
                /\ last' = Handled("grant_dj_permission", roomId, id, <<targetUserId>>, room,
                        "denied",
                        <<ToSocket("error", <<"Only the room owner can grant DJ permissions.">>)>>)
           ELSE IF Includes(room.djPermissions, targetUserId)
           THEN /\ UNCHANGED db
                /\ last' = Handled("grant_dj_permission", roomId, id, <<targetUserId>>, room,
                        "duplicate",
                        <<ToSocket("error", <<"This user already has DJ permissions.">>)>>)
           ELSE /\ db' = Update(roomId, updatedRoom)
                /\ last' = Handled("grant_dj_permission", roomId, id, <<targetUserId>>, room,
                        "ok",
                        <<ToRoom("dj_permissions_updated", updatedRoom.djPermissions),
                          ToSocket("success", <<"DJ permission granted">>)>>)

\* socket.on('revoke_dj_permission')
revoke_dj_permission(c, roomId, targetUserId, userId, guestId) ==
    LET room == findOne(roomId)
        id == effectiveUserId(userId, guestId)
        updatedRoom == [room EXCEPT
                          !.djPermissions = SelectSeq(@, LAMBDA d : d # targetUserId)]
    IN  /\ last = Idle
        /\ c \in conns
        /\ UNCHANGED <<rooms, conns, running>>
        /\ IF room = NoDoc
           THEN /\ UNCHANGED db
                /\ last' = Handled("revoke_dj_permission", roomId, id, <<targetUserId>>, room,
                        "noroom", <<ToSocket("error", <<"Room not found">>)>>)
           ELSE IF Str(room.creatorId) # Str(id)
           THEN /\ UNCHANGED db
                /\ last' = Handled("revoke_dj_permission", roomId, id, <<targetUserId>>, room,
                        "denied",
                        <<ToSocket("error", <<"Only the room owner can revoke DJ permissions.">>)>>)
           ELSE /\ db' = Update(roomId, updatedRoom)
                /\ last' = Handled("revoke_dj_permission", roomId, id, <<targetUserId>>, room,
                        "ok",
                        <<ToRoom("dj_permissions_updated", updatedRoom.djPermissions),
                          ToSocket("success", <<"DJ permission revoked">>)>>)

\* The handler has returned and its events are on the wire: back to the loop.
returnToLoop ==
    /\ last # Idle
    /\ last' = Idle
    /\ UNCHANGED <<db, rooms, conns, running>>

Next ==
    \/ returnToLoop
    \/ \E c \in Conns : connection(c)
    \/ \E c \in Conns : disconnect(c)
    \/ \E c \in Conns, r \in RoomIds, s \in Joiners :
          create_room(c, r, s[1], s[2])
    \/ \E c \in Conns, r \in RoomIds, s \in Joiners :
          join_room(c, r, s[1], s[2])
    \/ \E c \in Conns, r \in RoomIds, song \in Songs : add_to_queue(c, r, song)
    \/ \E c \in Conns, r \in RoomIds, s \in Senders :
          delete_room(c, r, s[1], s[2])
    \/ \E c \in Conns, r \in RoomIds, s \in Senders :
          next_song(c, r, s[1], s[2])
    \/ \E c \in Conns, r \in RoomIds, q \in TrackIds, s \in Senders :
          remove_from_queue(c, r, q, s[1], s[2])
    \/ \E c \in Conns, r \in RoomIds, s \in Senders :
          shuffle_queue(c, r, s[1], s[2])
    \/ \E c \in Conns, r \in RoomIds, t \in Times, s \in Senders :
          send_play(c, r, t, s[1], s[2])
    \/ \E c \in Conns, r \in RoomIds, s \in Senders :
          send_pause(c, r, s[1], s[2])
    \/ \E c \in Conns, r \in RoomIds, t \in Times, s \in Senders :
          send_seek(c, r, t, s[1], s[2])
    \/ \E c \in Conns, r \in RoomIds, song \in Songs, s \in Senders :
          request_song(c, r, song, s[1], s[2])
    \/ \E c \in Conns, r \in RoomIds, q \in RequestIds, s \in Senders :
          accept_request(c, r, q, s[1], s[2])
    \/ \E c \in Conns, r \in RoomIds, q \in RequestIds, s \in Senders :
          decline_request(c, r, q, s[1], s[2])
    \/ \E c \in Conns, r \in RoomIds, t \in TargetIds, s \in Senders :
          grant_dj_permission(c, r, t, s[1], s[2])
    \/ \E c \in Conns, r \in RoomIds, t \in TargetIds, s \in Senders :
          revoke_dj_permission(c, r, t, s[1], s[2])

Spec == Init /\ [][Next]_vars

\* ---- the live registry with several sockets -------------------------------------
\* Two sockets of one signed-in user: every join is under the identity u1.
LiveConns == {"c1", "c2"}
LiveJoiners == {<<"u1", Undefined>>}
NextLive ==
    \/ returnToLoop
    \/ \E c \in LiveConns : connection(c)
    \/ \E c \in LiveConns : disconnect(c)
    \/ \E c \in LiveConns, r \in RoomIds, s \in LiveJoiners :
          join_room(c, r, s[1], s[2])
    \/ \E c \in LiveConns, r \in RoomIds, song \in Songs : add_to_queue(c, r, song)
    \/ \E c \in LiveConns, r \in RoomIds, t \in Times, s \in LiveJoiners :
          send_play(c, r, t, s[1], s[2])
    \/ \E c \in LiveConns, r \in RoomIds, s \in LiveJoiners :
          send_pause(c, r, s[1], s[2])

SpecLive == Init /\ [][NextLive]_vars

\* ---- the inline handlers of server.js ---------------------------------------------
\* src/server.js registers handlers of its own on the same collection.  Its
\* remove_from_queue and shuffle_queue test the creator inline and only when
\* the room was found; on a missing room remove_from_queue goes on to its
\* findOneAndUpdate, which matches no document.

\* server.js socket.on('remove_from_queue')
server_remove_from_queue(c, roomId, queueId, userId, guestId) ==
    LET roomConfig == findOne(roomId)
        id == effectiveUserId(userId, guestId)
    IN  /\ last = Idle
        /\ c \in conns
        /\ UNCHANGED <<rooms, conns, running>>
        /\ IF roomConfig # NoDoc /\ Str(roomConfig.creatorId) # Str(id)
           THEN /\ UNCHANGED db
                /\ last' = Handled("remove_from_queue", roomId, id, <<queueId>>, roomConfig,
                                   "denied", <<>>)
           ELSE /\ db' = Update(roomId, [roomConfig EXCEPT !.queue = Pull(@, queueId)])
                /\ last' = Handled("remove_from_queue", roomId, id, <<queueId>>, roomConfig,
                        IF roomConfig = NoDoc THEN "nomatch" ELSE "ok",
                        IF roomId \in DOMAIN db'
                        THEN <<ToRoom("update_queue", db'[roomId].queue)>> ELSE <<>>)

\* server.js socket.on('shuffle_queue')
server_shuffle_queue(c, roomId, userId, guestId) ==
    LET roomConfig == findOne(roomId)
        id == effectiveUserId(userId, guestId)
    IN  /\ last = Idle
        /\ c \in conns
        /\ UNCHANGED <<rooms, conns, running>>
        /\ IF roomConfig # NoDoc /\ Str(roomConfig.creatorId) # Str(id)
           THEN /\ UNCHANGED db
                /\ last' = Handled("shuffle_queue", roomId, id, <<>>, roomConfig, "denied", <<>>)
           ELSE IF roomConfig = NoDoc
           THEN /\ UNCHANGED db
                /\ last' = Handled("shuffle_queue", roomId, id, <<>>, roomConfig, "noop", <<>>)
           ELSE IF Len(roomConfig.queue) <= 1
           THEN /\ UNCHANGED db
                /\ last' = Handled("shuffle_queue", roomId, id, <<>>, roomConfig, "noop", <<>>)
           ELSE \E js \in Draws(Len(roomConfig.queue)) :
                  LET shuffled == FisherYates(roomConfig.queue, Len(roomConfig.queue), js)
                  IN  /\ db' = Update(roomId, [roomConfig EXCEPT !.queue = shuffled])
                      /\ last' = Handled("shuffle_queue", roomId, id, <<>>, roomConfig, "ok",
                                         <<ToRoom("update_queue", shuffled)>>)

\* Both files' gated handlers, on rooms that come and go.
NextServer ==
    \/ returnToLoop
    \/ \E c \in Conns : connection(c)
    \/ \E c \in Conns, r \in RoomIds, s \in Joiners :
          create_room(c, r, s[1], s[2])
    \/ \E c \in Conns, r \in RoomIds, s \in Joiners :
          join_room(c, r, s[1], s[2])
    \/ \E c \in Conns, r \in RoomIds, song \in Songs : add_to_queue(c, r, song)
    \/ \E c \in Conns, r \in RoomIds, s \in Senders :
          delete_room(c, r, s[1], s[2])
    \/ \E c \in Conns, r \in RoomIds, s \in Senders :
          next_song(c, r, s[1], s[2])
    \/ \E c \in Conns, r \in RoomIds, q \in TrackIds, s \in Senders :
          remove_from_queue(c, r, q, s[1], s[2])
    \/ \E c \in Conns, r \in RoomIds, s \in Senders :
          shuffle_queue(c, r, s[1], s[2])
    \/ \E c \in Conns, r \in RoomIds, t \in Times, s \in Senders :
          send_play(c, r, t, s[1], s[2])
    \/ \E c \in Conns, r \in RoomIds, s \in Senders :
          send_pause(c, r, s[1], s[2])
    \/ \E c \in Conns, r \in RoomIds, t \in Times, s \in Senders :
          send_seek(c, r, t, s[1], s[2])
    \/ \E c \in Conns, r \in RoomIds, q \in RequestIds, s \in Senders :
          accept_request(c, r, q, s[1], s[2])
    \/ \E c \in Conns, r \in RoomIds, q \in RequestIds, s \in Senders :
          decline_request(c, r, q, s[1], s[2])
    \/ \E c \in Conns, r \in RoomIds, t \in TargetIds, s \in Senders :
          grant_dj_permission(c, r, t, s[1], s[2])
    \/ \E c \in Conns, r \in RoomIds, t \in TargetIds, s \in Senders :
          revoke_dj_permission(c, r, t, s[1], s[2])
    \/ \E c \in Conns, r \in RoomIds, q \in TrackIds, s \in Senders :
          server_remove_from_queue(c, r, q, s[1], s[2])
    \/ \E c \in Conns, r \in RoomIds, s \in Senders :
          server_shuffle_queue(c, r, s[1], s[2])

SpecServer == Init /\ [][NextServer]_vars

\* ---- room ids in mixed case ---------------------------------------------------------
\* Clients that join the one room under two spellings of its id.
CaseRoomIds == {"jam", "Jam"}
NextCase ==
    \/ returnToLoop
    \/ \E c \in LiveConns : connection(c)
    \/ \E c \in LiveConns, r \in CaseRoomIds, s \in LiveJoiners :
          join_room(c, r, s[1], s[2])
    \/ \E c \in LiveConns, r \in RoomIds, song \in Songs : add_to_queue(c, r, song)

SpecCase == Init /\ [][NextCase]_vars

\* ---- the handlers between their awaits ----------------------------------------
\* Every handler is an async function: it runs up to an await on the store, and
\* while it waits the event loop runs other handlers.  Below, each queue and
\* request handler is one action per stretch between two awaits; a store call
\* (findOne, findOneAndUpdate) is atomic in the store.  A waiting handler keeps
\* the locals it still uses after the await, computed from the document it
\* read, which may be stale by the time it writes.  The events a handler emits
\* are those of its action in the first part; here only the store is followed.
AsyncSenders == {<<"u1", Undefined>>}
\* The room jam, created and joined by the user u1 on socket c1.
InitAsync ==
    /\ db = ("jam" :> NewRoom("u1"))
    /\ rooms = ("jam" :> {"c1"})
    /\ conns = {"c1"}
    /\ last = Idle
    /\ running = NoTasks

\* The handler in slot k awaits a store call, holding `locals`.
Await(k, op, rid, locals, pc) ==
    running' = [running EXCEPT ![k] = Task(op, rid, locals, pc)]
\* The handler in slot k has run to its end.
Return(k) == running' = [running EXCEPT ![k] = NoTask]
\* findOneAndUpdate({ roomId },
\*   { currentSong: nextSong, queue: room.queue, isPlaying: true, currentTime: 0 })
\* where queue is room.queue of the document the handler holds, before the shift
WritePlayNext(stored, queue) ==
    [stored EXCEPT !.currentSong = Head(queue), !.queue = Tail(queue),
                   !.isPlaying = TRUE, !.currentTime = 0]

\* add_to_queue up to `await Room.findOneAndUpdate(..., { $push })`
add_to_queue_read(k, c, roomId, song) ==
    LET roomData == findOne(roomId)
    IN  /\ FreeSlot(k) /\ c \in conns
        /\ UNCHANGED <<db, rooms, conns, last>>
        /\ IF roomData = NoDoc \/ isDuplicate(roomData, song)
           THEN UNCHANGED running
           ELSE /\ Len(roomData.queue) < MaxQueue
                /\ Await(k, "add_to_queue", roomId, <<song>>, "push")
\* the $push, and on to the second findOneAndUpdate if no song is current;
\* a full queue takes no further entry (the bound of the model)
add_to_queue_push(k) ==
    LET t == running[k]
        room == Push(findOne(t.room), t.locals[1])
    IN  /\ At(k, "add_to_queue", "push")
        /\ Len(findOne(t.room).queue) < MaxQueue
        /\ UNCHANGED <<rooms, conns, last>>
        /\ db' = Update(t.room, room)
        /\ IF NoSongPlaying(room)
           THEN Await(k, "add_to_queue", t.room, <<room.queue>>, "play")
           ELSE Return(k)
\* the auto-start write
add_to_queue_play(k) ==
    LET t == running[k]
    IN  /\ At(k, "add_to_queue", "play")
        /\ UNCHANGED <<rooms, conns, last>>
        /\ db' = Update(t.room, WritePlayNext(findOne(t.room), t.locals[1]))
        /\ Return(k)

\* next_song up to its findOneAndUpdate
next_song_read(k, c, roomId, userId, guestId) ==
    LET room == findOne(roomId)
        id == effectiveUserId(userId, guestId)
    IN  /\ FreeSlot(k) /\ c \in conns
        /\ UNCHANGED <<db, rooms, conns, last>>
        /\ IF room = NoDoc \/ ~hasDJPermission(room, id)
           THEN UNCHANGED running
           ELSE Await(k, "next_song", roomId, <<room.queue>>, "write")
\* the write of what the handler computed from the document it read
next_song_write(k) ==
    LET t == running[k]
        stored == findOne(t.room)
    IN  /\ At(k, "next_song", "write")
        /\ UNCHANGED <<rooms, conns, last>>
        /\ IF Len(t.locals[1]) > 0
           THEN db' = Update(t.room, WritePlayNext(stored, t.locals[1]))
           ELSE db' = Update(t.room, [stored EXCEPT !.currentSong = NoSong,
                                                    !.isPlaying = FALSE])
        /\ Return(k)

\* shuffle_queue up to its findOneAndUpdate; the shuffle is done before the await
shuffle_queue_read(k, c, roomId, userId, guestId) ==
    LET roomConfig == findOne(roomId)
        id == effectiveUserId(userId, guestId)
    IN  /\ FreeSlot(k) /\ c \in conns
        /\ UNCHANGED <<db, rooms, conns, last>>
        /\ IF ~hasDJPermission(roomConfig, id) \/ Len(roomConfig.queue) <= 1
           THEN UNCHANGED running
           ELSE \E js \in Draws(Len(roomConfig.queue)) :
                  LET shuffled == FisherYates(roomConfig.queue, Len(roomConfig.queue), js)
                  IN  Await(k, "shuffle_queue", roomId, <<shuffled>>, "write")
\* { queue: shuffled }
shuffle_queue_write(k) ==
    LET t == running[k]
    IN  /\ At(k, "shuffle_queue", "write")
        /\ UNCHANGED <<rooms, conns, last>>
        /\ db' = Update(t.room, [findOne(t.room) EXCEPT !.queue = t.locals[1]])
        /\ Return(k)

\* request_song up to its $push
request_song_read(k, c, roomId, song, userId, guestId) ==
    LET room == findOne(roomId)
    IN  /\ FreeSlot(k) /\ c \in conns
        /\ UNCHANGED <<db, rooms, conns, last>>
        /\ IF \/ room = NoDoc
              \/ PendingFor(room.songRequests, song.id)
              \/ SomeId(room.queue, song.id)
           THEN UNCHANGED running
           ELSE /\ Len(room.songRequests) < MaxRequests
                /\ Await(k, "request_song", roomId, <<song>>, "push")
\* { $push: { songRequests: newRequest } }; the ObjectId made before the await
\* differs from every other, which is all that is known of it
request_song_push(k) ==
    LET t == running[k]
        stored == findOne(t.room)
        newRequest == [_id |-> NewObjectId(stored.songRequests), id |-> t.locals[1].id,
                       status |-> "pending"]
    IN  /\ At(k, "request_song", "push")
        /\ UNCHANGED <<rooms, conns, last>>
        /\ db' = Update(t.room, [stored EXCEPT !.songRequests = Append(@, newRequest)])
        /\ Return(k)

\* accept_request up to its findOneAndUpdate
accept_request_read(k, c, roomId, requestId, userId, guestId) ==
    LET room == findOne(roomId)
        id == effectiveUserId(userId, guestId)
    IN  /\ FreeSlot(k) /\ c \in conns
        /\ UNCHANGED <<db, rooms, conns, last>>
        /\ IF \/ room = NoDoc
              \/ ~hasDJPermission(room, id)
              \/ ~HasRequest(room.songRequests, requestId)
           THEN UNCHANGED running
           ELSE /\ Len(room.queue) < MaxQueue
                /\ Await(k, "accept_request", roomId,
                         <<requestId, FindRequest(room.songRequests, requestId)>>, "write")
\* the $set and $push, with the request the handler found in the document it read
accept_request_write(k) ==
    LET t == running[k]
    IN  /\ At(k, "accept_request", "write")
        /\ Len(findOne(t.room).queue) < MaxQueue
        /\ UNCHANGED <<rooms, conns, last>>
        /\ db' = Update(t.room, Accept(findOne(t.room), t.locals[2], t.locals[1]))
        /\ Return(k)

NextAsync ==
    \/ \E k \in Slots, c \in Conns, r \in RoomIds, song \in Songs :
          add_to_queue_read(k, c, r, song)
    \/ \E k \in Slots : add_to_queue_push(k)
    \/ \E k \in Slots : add_to_queue_play(k)
    \/ \E k \in Slots, c \in Conns, r \in RoomIds, s \in AsyncSenders :
          next_song_read(k, c, r, s[1], s[2])
    \/ \E k \in Slots : next_song_write(k)
    \/ \E k \in Slots, c \in Conns, r \in RoomIds, s \in AsyncSenders :
          shuffle_queue_read(k, c, r, s[1], s[2])
    \/ \E k \in Slots : shuffle_queue_write(k)
    \/ \E k \in Slots, c \in Conns, r \in RoomIds, song \in Songs, s \in AsyncSenders :
          request_song_read(k, c, r, song, s[1], s[2])
    \/ \E k \in Slots : request_song_push(k)
    \/ \E k \in Slots, c \in Conns, r \in RoomIds, q \in RequestIds, s \in AsyncSenders :
          accept_request_read(k, c, r, q, s[1], s[2])
    \/ \E k \in Slots : accept_request_write(k)

SpecAsync == InitAsync /\ [][NextAsync]_vars

\* ---- the queue handlers between their awaits, with no shuffle and no removal ------
NextFifo ==
    \/ \E k \in Slots, c \in Conns, r \in RoomIds, song \in Songs :
          add_to_queue_read(k, c, r, song)
    \/ \E k \in Slots : add_to_queue_push(k)
    \/ \E k \in Slots : add_to_queue_play(k)
    \/ \E k \in Slots, c \in Conns, r \in RoomIds, s \in AsyncSenders :
          next_song_read(k, c, r, s[1], s[2])
    \/ \E k \in Slots : next_song_write(k)
    \/ \E k \in Slots, c \in Conns, r \in RoomIds, song \in Songs, s \in AsyncSenders :
          request_song_read(k, c, r, song, s[1], s[2])
    \/ \E k \in Slots : request_song_push(k)
    \/ \E k \in Slots, c \in Conns, r \in RoomIds, q \in RequestIds, s \in AsyncSenders :
          accept_request_read(k, c, r, q, s[1], s[2])
    \/ \E k \in Slots : accept_request_write(k)

SpecFifo == InitAsync /\ [][NextFifo]_vars

\* ---- the DJ permission handlers between their awaits -----------------------------
\* The creator u1 grants and revokes DJ rights for two identities.
GrantTargets == {"g1", "g2"}

\* grant_dj_permission up to its $push
grant_dj_permission_read(k, c, roomId, targetUserId, userId, guestId) ==
    LET room == findOne(roomId)
        id == effectiveUserId(userId, guestId)
    IN  /\ FreeSlot(k) /\ c \in conns
        /\ UNCHANGED <<db, rooms, conns, last>>
        /\ IF \/ room = NoDoc
              \/ Str(room.creatorId) # Str(id)
              \/ Includes(room.djPermissions, targetUserId)
           THEN UNCHANGED running
           ELSE Await(k, "grant_dj_permission", roomId, <<targetUserId>>, "push")
\* { $push: { djPermissions: targetUserId } }; a full list takes no further
\* entry (the bound of the model)
grant_dj_permission_push(k) ==
    LET t == running[k]
        stored == findOne(t.room)
    IN  /\ At(k, "grant_dj_permission", "push")
        /\ Len(stored.djPermissions) < MaxGrants
        /\ UNCHANGED <<rooms, conns, last>>
        /\ db' = Update(t.room, [stored EXCEPT !.djPermissions = Append(@, t.locals[1])])
        /\ Return(k)
\* revoke_dj_permission up to its $pull
revoke_dj_permission_read(k, c, roomId, targetUserId, userId, guestId) ==
    LET room == findOne(roomId)
        id == effectiveUserId(userId, guestId)
    IN  /\ FreeSlot(k) /\ c \in conns
        /\ UNCHANGED <<db, rooms, conns, last>>
        /\ IF room = NoDoc \/ Str(room.creatorId) # Str(id)
           THEN UNCHANGED running
           ELSE Await(k, "revoke_dj_permission", roomId, <<targetUserId>>, "pull")
\* { $pull: { djPermissions: targetUserId } }
revoke_dj_permission_pull(k) ==
    LET t == running[k]
        stored == findOne(t.room)
    IN  /\ At(k, "revoke_dj_permission", "pull")
        /\ UNCHANGED <<rooms, conns, last>>
        /\ db' = Update(t.room,
                 [stored EXCEPT !.djPermissions = SelectSeq(@, LAMBDA d : d # t.locals[1])])
        /\ Return(k)

NextGrant ==
    \/ \E k \in Slots, c \in Conns, r \in RoomIds, t \in GrantTargets, s \in AsyncSenders :
          grant_dj_permission_read(k, c, r, t, s[1], s[2])
    \/ \E k \in Slots : grant_dj_permission_push(k)
    \/ \E k \in Slots, c \in Conns, r \in RoomIds, t \in GrantTargets, s \in AsyncSenders :
          revoke_dj_permission_read(k, c, r, t, s[1], s[2])
    \/ \E k \in Slots : revoke_dj_permission_pull(k)

SpecGrant == InitAsync /\ [][NextGrant]_vars

\* ---- join_room between its awaits, and disconnect ---------------------------------
\* Two sockets, one of the user u1 and one of the guest g1.  The store holds
\* no room, or the room jam from before creatorId was recorded; initRooms has
\* given every stored room an empty registry entry.
JoinConns == {"c1", "c2"}
JoinJoiners == {<<"u1", Undefined>>, <<Undefined, "g1">>}
InitJoin ==
    /\ db \in {<<>>, "jam" :> NewRoom(Undefined)}
    /\ rooms = [r \in DOMAIN db |-> {}]
    /\ conns = {}
    /\ last = Idle
    /\ running = NoTasks

\* if (!rooms[roomId]) rooms[roomId] = {...}; socket.join(roomId);
\* rooms[roomId].users[socket.id] = {...}
Register(r, roomId, c, userId) ==
    [GetOrCreate(r, roomId) EXCEPT ![roomId] = SetUser(@, c, userId)]

\* join_room up to `await Room.findOne({ roomId })`
join_room_begin(k, c, roomId, userId, guestId) ==
    /\ FreeSlot(k) /\ c \in conns
    /\ UNCHANGED <<db, rooms, conns, last>>
    /\ Await(k, "join_room", roomId, <<c, userId, guestId>>, "find")
\* the lookup has answered: on to Room.create, to the creatorId backfill, or
\* straight to the registry
join_room_find(k) ==
    LET t == running[k]
        roomData == FindRoom(t.room)
    IN  /\ At(k, "join_room", "find")
        /\ UNCHANGED <<db, conns, last>>
        /\ IF roomData = NoDoc
           THEN /\ Await(k, "join_room", t.room, t.locals, "create")
                /\ UNCHANGED rooms
           ELSE IF Falsy(roomData.creatorId)
           THEN /\ Await(k, "join_room", t.room, t.locals, "backfill")
                /\ UNCHANGED rooms
           ELSE /\ rooms' = Register(rooms, t.room, t.locals[1], t.locals[2])
                /\ Return(k)
\* Room.create has answered: the record is stored, or the unique index on
\* roomId has rejected it and the inner catch has logged that; either way the
\* handler goes on to the registry
join_room_create(k) ==
    LET t == running[k]
        id == OrElse(t.locals[2], t.locals[3])
    IN  /\ At(k, "join_room", "create")
        /\ UNCHANGED <<conns, last>>
        /\ db' = IF ToLowerCase(t.room) \in DOMAIN db THEN db
                 ELSE db @@ (ToLowerCase(t.room) :> NewRoom(id))
        /\ rooms' = Register(rooms, t.room, t.locals[1], t.locals[2])
        /\ Return(k)
\* findOneAndUpdate({ roomId: roomData.roomId }, { creatorId: effectiveUserId, owner })
\* has answered
join_room_backfill(k) ==
    LET t == running[k]
        id == OrElse(t.locals[2], t.locals[3])
        stored == findOne(ToLowerCase(t.room))
    IN  /\ At(k, "join_room", "backfill")
        /\ UNCHANGED <<conns, last>>
        /\ db' = Update(ToLowerCase(t.room), [stored EXCEPT !.creatorId = id])
        /\ rooms' = Register(rooms, t.room, t.locals[1], t.locals[2])
        /\ Return(k)

NextJoin ==
    \/ returnToLoop
    \/ \E c \in JoinConns : connection(c)
    \/ \E c \in JoinConns : disconnect(c)
    \/ \E k \in Slots, c \in JoinConns, r \in RoomIds, s \in JoinJoiners :
          join_room_begin(k, c, r, s[1], s[2])
    \/ \E k \in Slots : join_room_find(k)
    \/ \E k \in Slots : join_room_create(k)
    \/ \E k \in Slots : join_room_backfill(k)

SpecJoin == InitJoin /\ [][NextJoin]_vars

\* ---- store calls that fail -------------------------------------------------------
\* A store call may reject; the handler's catch block then runs.  A handler in
\* which the call `failed` rejects is one action, like the handlers of the first
\* part, and leaves in `last` the result "failed" and, as `pre`, the room
\* document that was stored when it started.
FaultJoiners == {<<"u1", Undefined>>, <<Undefined, Undefined>>}

\* join_room in which one store call rejects: the lookup (111-113), Room.create
\* (118) or the creatorId backfill (136)
join_room_fails(c, roomId, userId, guestId, failed) ==
    LET id == OrElse(userId, guestId)
        found == FindRoom(roomId)
    IN  /\ last = Idle
        /\ c \in conns
        /\ UNCHANGED <<db, conns, running>>
        /\ last' = Handled("join_room", roomId, id, <<c>>, found, "failed", <<>>)
        /\ \/ /\ failed = "find"
              /\ UNCHANGED rooms
           \* the inner catch logs, roomData stays null, the handler goes on to
           \* the registry and throws at roomData.roomId, into the outer catch
           \/ /\ failed = "create"
              /\ found = NoDoc
              /\ rooms' = Register(rooms, roomId, c, userId)
           \/ /\ failed = "backfill"
              /\ found # NoDoc /\ Falsy(found.creatorId)
              /\ UNCHANGED rooms

\* create_room in which one store call rejects: findOne (71) or Room.create
\* (83); the catch reports it to the socket
create_room_fails(c, roomId, userId, guestId, failed) ==
    LET room == findOne(roomId)
        id == OrElse(userId, guestId)
    IN  /\ last = Idle
        /\ c \in conns
        /\ UNCHANGED <<db, rooms, conns, running>>
        /\ last' = Handled("create_room", roomId, id, <<>>, room, "failed",
                           <<ToSocket("error", <<"Failed to create room">>)>>)
        /\ \/ failed = "find"
           \/ /\ failed = "create"
              /\ room = NoDoc

\* add_to_queue in which one store call rejects: findOne (199), the $push (211)
\* or the auto-start write (224)
add_to_queue_fails(c, roomId, song, failed) ==
    LET roomData == findOne(roomId)
        room == Push(roomData, song)
    IN  /\ last = Idle
        /\ c \in conns
        /\ UNCHANGED <<rooms, conns, running>>
        /\ \/ /\ failed = "read"
              /\ UNCHANGED db
              /\ last' = Handled("add_to_queue", roomId, Undefined, <<song>>, roomData,
                                 "failed", <<>>)
           \/ /\ failed = "push"
              /\ roomData # NoDoc /\ ~isDuplicate(roomData, song)
              /\ UNCHANGED db
              /\ last' = Handled("add_to_queue", roomId, Undefined, <<song>>, roomData,
                                 "failed", <<>>)
           \/ /\ failed = "play"
              /\ roomData # NoDoc /\ ~isDuplicate(roomData, song)
              /\ Len(roomData.queue) < MaxQueue
              /\ NoSongPlaying(room)
              /\ db' = Update(roomId, room)
              /\ last' = Handled("add_to_queue", roomId, Undefined, <<song>>, roomData,
                                 "failed", <<ToRoom("update_queue", room.queue)>>)

\* next_song in which one store call rejects: findOne (273) or the
\* findOneAndUpdate of either branch (284, 295)
next_song_fails(c, roomId, userId, guestId, failed) ==
    LET room == findOne(roomId)
        id == effectiveUserId(userId, guestId)
    IN  /\ last = Idle
        /\ c \in conns
        /\ UNCHANGED <<db, rooms, conns, running>>
        /\ last' = Handled("next_song", roomId, id, <<>>, room, "failed", <<>>)
        /\ \/ failed = "read"
           \/ /\ failed = "write"
              /\ room # NoDoc /\ hasDJPermission(room, id)

NextFault ==
    \/ returnToLoop
    \/ \E c \in Conns : connection(c)
    \/ \E c \in Conns, r \in RoomIds, s \in FaultJoiners :
          create_room(c, r, s[1], s[2])
    \/ \E c \in Conns, r \in RoomIds, s \in FaultJoiners, failed \in {"find", "create"} :
          create_room_fails(c, r, s[1], s[2], failed)
    \/ \E c \in Conns, r \in RoomIds, s \in FaultJoiners :
          join_room(c, r, s[1], s[2])
    \/ \E c \in Conns, r \in RoomIds, s \in FaultJoiners,
          failed \in {"find", "create", "backfill"} :
          join_room_fails(c, r, s[1], s[2], failed)
    \/ \E c \in Conns, r \in RoomIds, song \in Songs : add_to_queue(c, r, song)
    \/ \E c \in Conns, r \in RoomIds, song \in Songs,
          failed \in {"read", "push", "play"} :
          add_to_queue_fails(c, r, song, failed)
    \/ \E c \in Conns, r \in RoomIds, s \in FaultJoiners :
          next_song(c, r, s[1], s[2])
    \/ \E c \in Conns, r \in RoomIds, s \in FaultJoiners,
          failed \in {"read", "write"} :
          next_song_fails(c, r, s[1], s[2], failed)

SpecFault == Init /\ [][NextFault]_vars

\* ---- what the claims speak about ---------------------------------------------
DJGated == {"next_song", "remove_from_queue", "shuffle_queue", "send_play",
            "send_pause", "send_seek", "accept_request", "decline_request"}
CreatorGated == {"delete_room", "grant_dj_permission", "revoke_dj_permission"}
\* The room the last event named, as the store holds it now.
Stored == IF last.room \in DOMAIN db THEN db[last.room] ELSE NoDoc
\* The last event found its room in the store.
OnRoom(op) == last.op = op /\ last.pre # NoDoc
\* The identity is the room's creatorId, or is listed in its djPermissions.
IsCreator(room, id) == id = room.creatorId
IsListedDJ(room, id) == \E i \in 1..Len(room.djPermissions) : room.djPermissions[i] = id
\* A DJ of the room: an identity that created it or was granted DJ rights.
IsDJ(room, id) == id # Undefined /\ (IsCreator(room, id) \/ IsListedDJ(room, id))
\* The track's media id is neither playing nor queued in the room.
FreshTrack(room, song) ==
    /\ room.currentSong.id # song.id
    /\ \A i \in 1..Len(room.queue) : room.queue[i].id # song.id
EmittedToRoom(name) ==
    \E i \in 1..Len(last.out) : last.out[i].to = "room" /\ last.out[i].name = name
ErrorToSocket ==
    \E i \in 1..Len(last.out) : last.out[i].to = "socket" /\ last.out[i].name = "error"

\* C1: in every reachable state of every room, isPlaying = true implies that
\* currentSong is not null.
C1_PlayingHasSong ==
    \A r \in DOMAIN db : db[r].isPlaying => db[r].currentSong # NoSong

\* C2: a DJ-gated event whose effective identity is neither the room's creatorId
\* nor a member of its djPermissions is denied, and the room's durable state
\* is exactly what it was before the event.
C2_NonDJDenied ==
    \A op \in DJGated :
        (OnRoom(op) /\ ~IsCreator(last.pre, last.id) /\ ~IsListedDJ(last.pre, last.id))
            => (last.res = "denied" /\ Stored = last.pre)

\* C3: an event that carries neither userId nor guestId is denied by every
\* authorization check, DJ-gated and creator-gated alike, for every room,
\* also one whose creatorId was never set.
C3_AnonymousDenied ==
    \A op \in DJGated \cup CreatorGated :
        (OnRoom(op) /\ last.id = Undefined) => (last.res = "denied" /\ Stored = last.pre)

\* C4: delete_room, grant_dj_permission and revoke_dj_permission succeed only
\* for the identity equal to the room's creatorId; any other identity gets an
\* error, the room record still exists and djPermissions is unchanged.
C4_CreatorOnly ==
    \A op \in CreatorGated :
        (OnRoom(op) /\ ~IsCreator(last.pre, last.id))
            => /\ last.res = "denied"
               /\ ErrorToSocket
               /\ Stored # NoDoc
               /\ Stored.djPermissions = last.pre.djPermissions

\* C5: add_to_queue of a non-duplicate track on an Idle room ends with the room
\* Playing: currentSong set, isPlaying = true, currentTime = 0, and the queue
\* head removed from the queue.
C5_EnqueueOnIdlePlays ==
    (OnRoom("add_to_queue") /\ last.pre.currentSong = NoSong
        /\ FreshTrack(last.pre, last.arg[1]))
        => /\ last.res = "ok"
           /\ Stored.currentSong # NoSong
           /\ Stored.isPlaying
           /\ Stored.currentTime = 0
           /\ Stored.queue = Tail(last.pre.queue \o <<last.arg[1]>>)
C5_Witness ==
    /\ OnRoom("add_to_queue") /\ last.res = "ok"
    /\ last.pre.currentSong = NoSong /\ last.pre.currentTime = 1
    /\ ~last.pre.isPlaying
    /\ Stored.isPlaying /\ EmittedToRoom("receive_play_song")

\* C6: when add_to_queue is applied to an Idle room, the track that becomes
\* currentSong is the newly added track itself, also when the Idle room's
\* queue is already non-empty.
C6_AddedTrackPlays ==
    (OnRoom("add_to_queue") /\ last.res = "ok" /\ last.pre.currentSong = NoSong)
        => Stored.currentSong = last.arg[1]

\* C7: add_to_queue of a non-duplicate track on a Playing or Paused room, by any
\* identity, appends the track at the tail of the queue and leaves currentSong,
\* isPlaying and currentTime unchanged.
C7_EnqueueOnBusyAppends ==
    (OnRoom("add_to_queue") /\ last.pre.currentSong # NoSong
        /\ FreshTrack(last.pre, last.arg[1]))
        => /\ last.res = "ok"
           /\ Stored.queue = last.pre.queue \o <<last.arg[1]>>
           /\ Stored.currentSong = last.pre.currentSong
           /\ Stored.isPlaying = last.pre.isPlaying
           /\ Stored.currentTime = last.pre.currentTime
           /\ ~EmittedToRoom("receive_play_song")
C7_Witness ==
    /\ OnRoom("add_to_queue") /\ last.res = "ok"
    /\ last.pre.currentSong # NoSong /\ ~last.pre.isPlaying
    /\ last.pre.creatorId = "u1" /\ last.pre.djPermissions = <<>>
    /\ Len(Stored.queue) = Len(last.pre.queue) + 1

\* C8: add_to_queue of a track whose id equals currentSong.id or the id of a
\* queued track is rejected: the requester receives a queue_feedback error,
\* nothing is written to the store, and neither update_queue nor
\* receive_play_song is emitted.
C8_DuplicateRejected ==
    (OnRoom("add_to_queue") /\ ~FreshTrack(last.pre, last.arg[1]))
        => /\ last.res = "duplicate"
           /\ Len(last.out) = 1
           /\ last.out[1].to = "socket" /\ last.out[1].name = "queue_feedback"
           /\ last.out[1].data[1] = "error"
           /\ Stored = last.pre
C8_Witness ==
    /\ OnRoom("add_to_queue") /\ last.res = "duplicate"
    /\ last.pre.currentSong = last.arg[1]
    /\ Len(last.pre.queue) > 0

\* C9: next_song by a DJ on a non-empty queue sets currentSong to the old queue
\* head, isPlaying = true, currentTime = 0, and emits receive_play_song with the
\* old head and update_queue with the remainder; on an empty queue it sets
\* currentSong = null and isPlaying = false and emits receive_pause.
C9_AdvanceByDJ ==
    (OnRoom("next_song") /\ IsDJ(last.pre, last.id))
        => IF Len(last.pre.queue) > 0
           THEN /\ Stored.currentSong = Head(last.pre.queue)
                /\ Stored.isPlaying /\ Stored.currentTime = 0
                /\ Stored.queue = Tail(last.pre.queue)
                /\ last.out = <<ToRoom("receive_play_song", <<Head(last.pre.queue)>>),
                                ToRoom("update_queue", Tail(last.pre.queue))>>
           ELSE /\ Stored.currentSong = NoSong
                /\ ~Stored.isPlaying
                /\ Stored.queue = <<>>
                /\ last.out = <<ToRoom("receive_pause", <<>>)>>
C9_Witness ==
    /\ OnRoom("next_song") /\ last.res = "ok"
    /\ IsListedDJ(last.pre, last.id) /\ ~IsCreator(last.pre, last.id)
    /\ Len(last.pre.queue) = 2 /\ last.pre.currentTime = 1
    /\ last.pre.currentSong # NoSong

\* C10: every successful accept_request by a DJ changes exactly one request's
\* status from pending to accepted and appends exactly one track, the
\* request's, to the queue; every other request and queue entry is unchanged.
C10_AcceptMovesOnePending ==
    (OnRoom("accept_request") /\ IsDJ(last.pre, last.id) /\ last.res = "ok")
        => /\ Len(Stored.songRequests) = Len(last.pre.songRequests)
           /\ \E i \in 1..Len(last.pre.songRequests) :
                /\ last.pre.songRequests[i].status = "pending"
                /\ Stored.songRequests[i] =
                      [last.pre.songRequests[i] EXCEPT !.status = "accepted"]
                /\ \A k \in 1..Len(last.pre.songRequests) :
                      k # i => Stored.songRequests[k] = last.pre.songRequests[k]
                /\ Stored.queue = last.pre.queue \o <<[id |-> last.pre.songRequests[i].id]>>

\* The request the last event named, as the handler read it.
NamedRequest == FindRequest(last.pre.songRequests, last.arg[1])
NamesRequest == HasRequest(last.pre.songRequests, last.arg[1])
OnlyToSocket == \A i \in 1..Len(last.out) : last.out[i].to = "socket"
\* How often a track occurs in a queue.
Count(queue, song) == Cardinality({i \in 1..Len(queue) : queue[i] = song})

\* C11: accepted and declined are terminal: an accept_request or
\* decline_request naming a request that is already accepted or declined
\* changes no request's status and appends nothing to the queue.
C11_StatusTerminal ==
    \A op \in {"accept_request", "decline_request"} :
        (OnRoom(op) /\ IsDJ(last.pre, last.id) /\ NamesRequest
            /\ NamedRequest.status # "pending")
            => /\ Stored.songRequests = last.pre.songRequests
               /\ Stored.queue = last.pre.queue

C13_AbsentRequestNoOp ==
    \A op \in {"accept_request", "decline_request"} :
        (OnRoom(op) /\ ~NamesRequest)
            => /\ ErrorToSocket /\ OnlyToSocket
               /\ Stored.songRequests = last.pre.songRequests
               /\ Stored.queue = last.pre.queue
C13_Witness ==
    /\ OnRoom("decline_request") /\ IsDJ(last.pre, last.id) /\ ~NamesRequest
    /\ Len(last.pre.songRequests) > 0
    /\ last.res = "notfound"

\* C14: accept_request never starts playback: a successful accept leaves
\* currentSong, isPlaying and currentTime as they were and emits no
\* receive_play_song; on an Idle room currentSong stays null, isPlaying stays
\* false and the track is only appended to the queue.
C14_AcceptNeverPlays ==
    (OnRoom("accept_request") /\ last.res = "ok")
        => /\ Stored.currentSong = last.pre.currentSong
           /\ Stored.isPlaying = last.pre.isPlaying
           /\ Stored.currentTime = last.pre.currentTime
           /\ Stored.queue = last.pre.queue \o <<[id |-> NamedRequest.id]>>
           /\ ~EmittedToRoom("receive_play_song")
C14_Witness ==
    /\ OnRoom("accept_request") /\ last.res = "ok" /\ IsDJ(last.pre, last.id)
    /\ last.pre.currentSong = NoSong /\ ~last.pre.isPlaying /\ last.pre.queue = <<>>
    /\ Stored.currentSong = NoSong /\ ~Stored.isPlaying /\ Len(Stored.queue) = 1

\* C15: request_song is rejected, and no request is appended to songRequests,
\* whenever a pending request for the same track id exists, or the track id is
\* in the queue, or the track id equals currentSong.id.
C15_RequestRejected ==
    (OnRoom("request_song")
        /\ \/ PendingFor(last.pre.songRequests, last.arg[1].id)
           \/ SomeId(last.pre.queue, last.arg[1].id)
           \/ last.pre.currentSong.id = last.arg[1].id)
        => /\ last.res = "duplicate"
           /\ Stored.songRequests = last.pre.songRequests

\* C17: shuffle_queue by a DJ on a queue of length <= 1 changes nothing and
\* emits nothing; on a longer queue it stores a permutation of the entries it
\* read and leaves currentSong, isPlaying and currentTime unchanged.
C17_ShufflePermutes ==
    (OnRoom("shuffle_queue") /\ IsDJ(last.pre, last.id))
        => IF Len(last.pre.queue) <= 1
           THEN Stored = last.pre /\ last.out = <<>>
           ELSE /\ Len(Stored.queue) = Len(last.pre.queue)
                /\ \A song \in Songs :
                      Count(Stored.queue, song) = Count(last.pre.queue, song)
                /\ [Stored EXCEPT !.queue = last.pre.queue] = last.pre
C17_Witness ==
    /\ OnRoom("shuffle_queue") /\ last.res = "ok" /\ IsDJ(last.pre, last.id)
    /\ Len(last.pre.queue) = 2 /\ Stored.queue # last.pre.queue
    /\ last.pre.currentSong # NoSong

\* The members of a room in the live registry; none if the room has no entry.
Members(r, rid) == IF rid \in DOMAIN r THEN r[rid] ELSE {}

\* C20: live members are keyed by connection. A join_room adds the joining
\* socket as a member of its own and keeps every other member, whatever the
\* identity it joins under; a disconnect removes the disconnecting socket's
\* member and no other, and while a member remains in a room the disconnect
\* leaves the room's stored isPlaying as it was.
C20_MembersByConnection ==
    [][/\ last'.op = "join_room"
            => Members(rooms', last'.room) = Members(rooms, last'.room) \cup {last'.arg[1]}
       /\ last'.op = "disconnect"
            => \A r \in DOMAIN rooms :
                  /\ rooms'[r] = rooms[r] \ {last'.arg[1]}
                  /\ (rooms'[r] # {} /\ r \in DOMAIN db)
                        => db'[r].isPlaying = db[r].isPlaying]_vars
C20_Witness ==
    /\ last.op = "disconnect"
    /\ EmittedToRoom("update_listeners")
    /\ conns = LiveConns \ {last.arg[1]}
    /\ \E r \in DOMAIN rooms :
          /\ Cardinality(rooms[r]) = 1 /\ rooms[r] \subseteq conns
          /\ r \in DOMAIN db /\ db[r].isPlaying /\ db[r].currentSong # NoSong

\* How many pending requests a room holds for a track.
PendingCount(room, trackId) ==
    Cardinality({i \in 1..Len(room.songRequests) :
                    /\ room.songRequests[i].id = trackId
                    /\ room.songRequests[i].status = "pending"})
\* A next_song handler that has shifted the head off the queue it read and
\* waits for its write, which makes that head currentSong.
TookHead(k) == At(k, "next_song", "write") /\ Len(running[k].locals[1]) > 0

\* C16: in every reachable state, also those reached by request_song handlers
\* interleaved on one room, a room holds at most one pending request per
\* track id.
C16_OnePendingPerTrack ==
    \A r \in DOMAIN db : \A t \in TrackIds : PendingCount(db[r], t) <= 1

\* C18: two next_song handlers interleaved on one room never both take the same
\* queue head: no two of them wait for their write holding the head of the
\* same queue, each about to make that one track currentSong.
C18_NoHeadTakenTwice ==
    \A j, k \in Slots :
        (j # k /\ TookHead(j) /\ TookHead(k) /\ running[j].room = running[k].room)
            => running[j].locals[1] # running[k].locals[1]

\* C19: a track in a room's queue, put there by add_to_queue or accept_request,
\* is not lost to a next_song, shuffle_queue or auto-start running at the same
\* time: after every step of the queue handlers it is still in the queue or
\* is currentSong.
C19_QueuedTrackKept ==
    [][\A r \in DOMAIN db : \A i \in 1..Len(db[r].queue) :
          \/ SomeId(db'[r].queue, db[r].queue[i].id)
          \/ db'[r].currentSong.id = db[r].queue[i].id]_vars

\* C21: whenever a disconnect leaves a room's session with no live member, the
\* stored room has isPlaying = false after it and is otherwise as it was:
\* queue, currentSong and currentTime (and every other field) are unchanged.
C21_EmptiedRoomPaused ==
    [][last'.op = "disconnect"
          => \A r \in DOMAIN rooms :
                (rooms[r] # {} /\ rooms'[r] = {} /\ r \in DOMAIN db)
                   => /\ r \in DOMAIN db'
                      /\ ~db'[r].isPlaying
                      /\ db'[r].queue = db[r].queue
                      /\ db'[r].currentSong = db[r].currentSong
                      /\ db'[r].currentTime = db[r].currentTime]_vars
C21_Witness ==
    /\ last.op = "disconnect"
    /\ EmittedToRoom("update_listeners")
    /\ \E r \in DOMAIN rooms :
          /\ rooms[r] = {} /\ r \in DOMAIN db
          /\ ~db[r].isPlaying /\ db[r].currentSong # NoSong /\ db[r].currentTime > 0
          /\ Len(db[r].queue) > 0

QueuePlayback == {"add_to_queue", "next_song", "remove_from_queue", "shuffle_queue",
                  "send_play", "send_pause", "send_seek", "request_song",
                  "accept_request", "decline_request"}
EmittedToAll(name) ==
    \E i \in 1..Len(last.out) : last.out[i].to = "all" /\ last.out[i].name = name

C29_DenialReported ==
    (last.op \in DJGated \cup CreatorGated /\ last.pre # NoDoc /\ last.res = "denied")
        => (ErrorToSocket /\ OnlyToSocket)

\* C30: every room-scoped event other than join_room and create_room that names
\* a room with no stored record is reported by an error event to the
\* requesting socket only, and the room is still not in the store after it.
C30_MissingRoomReported ==
    (last.op \in QueuePlayback \cup CreatorGated /\ last.pre = NoDoc)
        => (ErrorToSocket /\ OnlyToSocket /\ Stored = NoDoc)

\* The connections recorded as live members of a stored room, under whatever
\* spelling of its id they joined.
RoomMembers(x) == UNION {rooms[k] : k \in {j \in DOMAIN rooms : ToLowerCase(j) = x}}

\* C25: in every update_active_rooms broadcast, the userCount reported for a
\* room equals the number of connections recorded as live members of that room,
\* members who joined under a mixed-case spelling of its id included.
C25_UserCountIsMembers ==
    \A i \in 1..Len(last.out) :
        (last.out[i].to = "all" /\ last.out[i].name = "update_active_rooms")
            => \A x \in DOMAIN last.out[i].data :
                  last.out[i].data[x] = Cardinality(RoomMembers(x))

\* C22: in every reachable state, every member recorded in a room's session
\* belongs to a connection that is open, also when the connection's
\* disconnect is handled while its join_room waits on the store.
C22_MembersAreOpen == \A r \in DOMAIN rooms : rooms[r] \subseteq conns

\* C24: a creatorId backfilled by the first joiner of a room that had none is
\* not replaced by a later joiner, also when several join_room handlers for the
\* room are in flight at once: once a stored room's creatorId holds an
\* identity, every step leaves it as it is.
C24_FirstJoinerStays ==
    [][\A r \in DOMAIN db :
          (~Falsy(db[r].creatorId) /\ r \in DOMAIN db')
             => db'[r].creatorId = db[r].creatorId]_vars

\* C27: if a store call fails while join_room handles a room that is not stored
\* yet, the joining connection is not recorded as a member of that room.
C27_FailedJoinNotRecorded ==
    (last.op = "join_room" /\ last.res = "failed" /\ last.pre = NoDoc)
        => last.arg[1] \notin Members(rooms, last.room)

\* C28: if a store call inside add_to_queue, next_song or join_room fails, the
\* stored room is what it was when the handler started, also when
\* add_to_queue's $push has succeeded and its auto-start write fails.
C28_FailedMutationKeepsState == (last.res = "failed") => (Stored = last.pre)

\* C31: a create_room that names a room id which already has a record creates
\* nothing and leaves the stored room as it was, emits no room_created, and
\* sends the requesting socket an event of its own.
C31_CreateConflict ==
    (last.op = "create_room" /\ last.pre # NoDoc)
        => /\ Stored = last.pre
           /\ \A i \in 1..Len(last.out) : last.out[i].name # "room_created"
           /\ \E i \in 1..Len(last.out) : last.out[i].to = "socket"

C33_PlaysQueueHead ==
    [][\A r \in DOMAIN db :
          (/\ r \in DOMAIN db'
           /\ db'[r].currentSong # db[r].currentSong
           /\ db'[r].currentSong # NoSong)
             => /\ db[r].queue # <<>>
                /\ db'[r].currentSong = Head(db[r].queue)]_vars

\* C34: whenever a store call throws inside a handler, the handler catches it,
\* the event loop goes on to serve later events, and the acting socket is sent
\* an error event.
C34_FailureReported == (last.res = "failed") => ErrorToSocket

\* C35: a send_play on a room that has no currentSong and is not playing is
\* ignored or rejected, also when a DJ of the room sends it: the stored
\* isPlaying stays false and no receive_play is emitted to the room.
C35_PlayOnIdleIgnored ==
    (/\ OnRoom("send_play") /\ IsDJ(last.pre, last.id)
     /\ last.pre.currentSong = NoSong /\ ~last.pre.isPlaying)
        => /\ Stored # NoDoc => ~Stored.isPlaying
           /\ ~EmittedToRoom("receive_play")

\* The transport events.
Transport == {"send_play", "send_pause", "send_seek"}

\* C36: a send_play, send_pause or send_seek that passes the DJ check changes
\* isPlaying and currentTime only: every other field of the stored room is as
\* it was.  send_play sets isPlaying and the given time, send_pause clears
\* isPlaying and keeps currentTime, send_seek sets the given time and keeps
\* isPlaying.
C36_TransportFrame ==
    (last.op \in Transport /\ last.pre # NoDoc /\ last.res = "ok")
        => /\ Stored # NoDoc
           /\ [Stored EXCEPT !.isPlaying = last.pre.isPlaying,
                              !.currentTime = last.pre.currentTime] = last.pre
           /\ last.op = "send_play"
                 => (Stored.isPlaying /\ Stored.currentTime = last.arg[1])
           /\ last.op = "send_pause"
                 => (~Stored.isPlaying /\ Stored.currentTime = last.pre.currentTime)
           /\ last.op = "send_seek"
                 => (Stored.isPlaying = last.pre.isPlaying
                     /\ Stored.currentTime = last.arg[1])
C36_Witness ==
    /\ OnRoom("send_seek") /\ last.res = "ok"
    /\ IsDJ(last.pre, last.id)
    /\ last.pre.isPlaying /\ last.pre.currentTime # last.arg[1]
    /\ Stored.isPlaying /\ Stored.currentTime = last.arg[1]
    /\ Len(Stored.queue) > 0

\* new is old with some entries left out and the others in their order.
IsSubsequence(new, old) ==
    \E f \in [1..Len(new) -> 1..Len(old)] :
        /\ \A i \in 1..Len(new) : new[i] = old[f[i]]
        /\ \A i, j \in 1..Len(new) : i < j => f[i] < f[j]

C39_PermissionsAreASet ==
    \A r \in DOMAIN db : \A i, j \in 1..Len(db[r].djPermissions) :
        i # j => db[r].djPermissions[i] # db[r].djPermissions[j]

\* C40: in every reachable state of a room no two queue entries share a media
\* id, and no queue entry has the media id of currentSong.
C40_NoDuplicateMedia ==
    \A r \in DOMAIN db :
        /\ \A i, j \in 1..Len(db[r].queue) :
              i # j => db[r].queue[i].id # db[r].queue[j].id
        /\ \A i \in 1..Len(db[r].queue) : db[r].queue[i].id # db[r].currentSong.id
====
